---- MODULE Spec2Model ----
(***************************************************************************)
(* A model of the two concurrent pipelines of bigcsv:                      *)
(*   - multiread.py: the distributor (main), the N worker processes (read) *)
(*     that share one line queue, and the collator (collate), together     *)
(*     with the single-worker path read_stream and the sequential reader   *)
(*     read.read;                                                          *)
(*   - multisplit.py: the distributor (split / populate_queues) and one    *)
(*     writer thread per column.                                           *)
(* Text is modelled as sequences of one-character strings, so that         *)
(* parse_line (rstrip + split) and the writer's join are computed, not     *)
(* assumed.                                                                *)
(***************************************************************************)
EXTENDS Integers, Sequences, FiniteSets, TLC

VARIABLES
    mode,            \* which program runs: "multiread", "function", "multisplit"
    header,          \* the parsed header row (a sequence of fields)
    input,           \* the data lines of the input stream, as given
    stdin,           \* the lines of the stream not read yet
    num_workers,     \* multiread._NUM_WORKERS
    line_queue,      \* multiread.main: line_queue
    result_queue,    \* multiread.main: result_queue
    worker_pc,       \* per worker process: its position in read
    counter,         \* per worker: read's local counter
    column_lengths,  \* per worker: read's local column_lengths
    main_pc,         \* position of multiread.main
    main_i,          \* index of the loop main is in
    results,         \* the partial results main has taken for collate
    result,          \* the value collate returned to main
    batches,         \* multisplit: the batches make_batches has still to yield
    columns,         \* populate_queues: the column lists of the current batch
    histogram,       \* populate_queues: histogram
    queues,          \* split: per column, the items on its Queue
    unfinished,      \* per column queue: Queue.unfinished_tasks
    sink,            \* per column: what was written to its file
    sink_state,      \* per column: "none", "open" or "closed"
    writer_pc,       \* per writer thread: its position in writer_thread
    lines,           \* per writer thread: its local variable lines
    split_pc,        \* position of multisplit.split
    split_j,         \* index of the loop over queues split is in
    returned         \* the value split returned

mrvars == <<num_workers, line_queue, result_queue, worker_pc, counter,
            column_lengths, main_pc, main_i, results, result>>

msvars == <<batches, columns, histogram, queues, unfinished, sink, sink_state,
            writer_pc, lines, split_pc, split_j, returned>>

----------------------------------------------------------------------------
(* Bounds of the model *)

\* the longest input, in data lines
MaxRows == 3
\* the largest worker count (multiprocessing.cpu_count() is the machine's)
MaxWorkers == 2
\* the batch size of make_batches: multisplit.DEFAULT_BATCH_SIZE is 10000,
\* scaled down so that an input of MaxRows rows fills more than one batch
BatchSize == 2
\* the most batches on the queue writer_thread is run on by itself
MaxBatches == 3

----------------------------------------------------------------------------
(* Text *)

NL == "\n"
\* multiread.py line 9
_DELIMITER == "|"
\* multiread.py line 11: None, which is no line
_SENTINEL == <<"None">>
\* sys.maxint (its value on a 32-bit build of Python 2)
maxint == 2147483647

\* str.rstrip('\n'): every trailing newline is removed
RECURSIVE rstrip(_)
rstrip(s) ==
    IF Len(s) > 0 /\ s[Len(s)] = NL THEN rstrip(SubSeq(s, 1, Len(s) - 1)) ELSE s

\* str.split(delimiter): the fields between delimiters, at least one field
RECURSIVE split_str(_, _)
split_str(s, d) ==
    IF \E k \in 1..Len(s) : s[k] = d
    THEN LET k == CHOOSE k \in 1..Len(s) :
                    s[k] = d /\ \A m \in 1..(k - 1) : s[m] # d
         IN  <<SubSeq(s, 1, k - 1)>> \o split_str(SubSeq(s, k + 1, Len(s)), d)
    ELSE <<s>>

\* the split without the rstrip
parse_line_keep_newline(line) == split_str(line, _DELIMITER)

\* multiread.py lines 14-15
parse_line(line) == split_str(rstrip(line), _DELIMITER)

----------------------------------------------------------------------------
(* Arithmetic helpers *)

\* an exception that ends the computation, in place of its value
Raised(e) == [raised |-> e]
IsRaised(v) == "raised" \in DOMAIN v
\* no value yet
NoValue == [novalue |-> TRUE]

Max(a, b) == IF a >= b THEN a ELSE b
Min(a, b) == IF a <= b THEN a ELSE b

RECURSIVE SumSeq(_)
SumSeq(s) == IF s = <<>> THEN 0 ELSE s[1] + SumSeq(Tail(s))

RECURSIVE MaxSeq(_)
MaxSeq(s) == IF Len(s) = 1 THEN s[1] ELSE Max(s[1], MaxSeq(Tail(s)))

RECURSIVE MinSeq(_)
MinSeq(s) == IF Len(s) = 1 THEN s[1] ELSE Min(s[1], MinSeq(Tail(s)))

RECURSIVE GCD(_, _)
GCD(a, b) == IF b = 0 THEN a ELSE GCD(b, a % b)

\* true division (from __future__ import division) of two non-negative
\* integers, as the rational in lowest terms; a zero divisor raises
TrueDiv(a, b) ==
    IF b = 0 THEN Raised("ZeroDivisionError")
    ELSE LET g == GCD(a, b) IN [num |-> a \div g, den |-> b \div g]

----------------------------------------------------------------------------
(* collections.Counter: a function from the keys counted so far to counts *)

EmptyCounter == <<>>

CounterGet(c, k) == IF k \in DOMAIN c THEN c[k] ELSE 0

\* counter[k] += 1
CounterIncr(c, k) ==
    [x \in (DOMAIN c) \cup {k} |-> IF x = k THEN CounterGet(c, k) + 1 ELSE c[x]]

\* dict.update(other): the other's counts replace the counts held
CounterUpdateOverwrite(c, other) ==
    [x \in (DOMAIN c) \cup (DOMAIN other) |->
        IF x \in DOMAIN other THEN other[x] ELSE c[x]]

\* Counter.update(other): counts are added
CounterUpdate(c, other) ==
    [x \in (DOMAIN c) \cup (DOMAIN other) |-> CounterGet(c, x) + CounterGet(other, x)]

RECURSIVE SumOver(_, _)
SumOver(c, keys) ==
    IF keys = {} THEN 0
    ELSE LET k == CHOOSE k \in keys : TRUE IN c[k] + SumOver(c, keys \ {k})

\* sum(counter.values())
CounterTotal(c) == SumOver(c, DOMAIN c)

----------------------------------------------------------------------------
(* Inputs *)

\* the raw data lines the model draws inputs from: with header a they are a
\* row of one empty field, a row of one field, and two rows of width 2; with
\* header a|b the first two are malformed and the last two match
LineSet ==
    { <<NL>>, <<"x", NL>>, <<"|", NL>>, <<"x", "x", "|", "x", NL>> }

HeaderLines == { <<"a", NL>>, <<"a", "|", "b", NL>> }

RECURSIVE SeqsUpTo(_, _)
SeqsUpTo(S, n) ==
    IF n = 0 THEN { <<>> }
    ELSE LET shorter == SeqsUpTo(S, n - 1)
         IN  shorter \cup { Append(q, x) : q \in shorter, x \in S }

\* test.py, toy_example: the data lines after the header a|b; the last line
\* has no newline
ToyLines ==
    << <<"1", "|", NL>>,
       <<"f", "o", "o", "b", "a", "r", "|", "b", "a", "z", NL>>,
       <<"x">> >>

ToyHeader == parse_line(<<"a", "|", "b", NL>>)

Inputs == SeqsUpTo(LineSet, MaxRows)

\* the inputs of the concurrent run of multiread.main, without the empty
\* line: each header still has rows of its width and rows of another
WorkerInputs == SeqsUpTo(LineSet \ { <<NL>> }, MaxRows)

Headers == { parse_line(h) : h \in HeaderLines }

Cols == 1..Len(header)

----------------------------------------------------------------------------
(* multiread.read: the worker *)

EmptyColumns(h) == [j \in 1..Len(h) |-> <<>>]

\* lines 30, 34: the only two updates of the worker's state for one line
CounterAfterLine(h, c, line) == CounterIncr(c, Len(parse_line(line)))

ColumnsAfterLine(h, cl, line) ==
    LET row == parse_line(line)
    IN  IF Len(row) # Len(h) THEN cl
        ELSE [j \in 1..Len(h) |-> Append(cl[j], Len(row[j]))]

\* every value counted, the empty ones too
FillCountAll(l) == Len(l)

\* sum(x > 0 for x in l)
FillCount(l) == Cardinality({i \in 1..Len(l) : l[i] > 0})

\* lines 38-42: the partial result put on the result queue; min and max of
\* an empty list raise ValueError
PartialResult(c, cl) ==
    IF \E j \in DOMAIN cl : cl[j] = <<>> THEN Raised("ValueError")
    ELSE [counter    |-> c,
          fill_count |-> [j \in DOMAIN cl |-> FillCount(cl[j])],
          max_len    |-> [j \in DOMAIN cl |-> MaxSeq(cl[j])],
          min_len    |-> [j \in DOMAIN cl |-> MinSeq(cl[j])],
          sum_len    |-> [j \in DOMAIN cl |-> SumSeq(cl[j])]]

\* the whole of read run on a queue that yields the lines and then the
\* sentinel (FakeQueue)
RECURSIVE ReadAll(_, _, _, _)
ReadAll(h, c, cl, data) ==
    IF data = <<>> THEN PartialResult(c, cl)
    ELSE ReadAll(h, CounterAfterLine(h, c, Head(data)),
                 ColumnsAfterLine(h, cl, Head(data)), Tail(data))

----------------------------------------------------------------------------
(* multiread.collate *)

\* lines 46-50
CollateInit(h) ==
    [counter    |-> EmptyCounter,
     fill_count |-> [j \in 1..Len(h) |-> 0],
     max_len    |-> [j \in 1..Len(h) |-> 0],
     min_len    |-> [j \in 1..Len(h) |-> maxint],
     sum_len    |-> [j \in 1..Len(h) |-> 0]]

\* the last partial result's maximum kept, not the larger one
MergeMaxOverwrite(a, b) == b

\* the smaller of the two kept as the maximum
MergeMaxIsMin(a, b) == Min(a, b)

\* line 55
MergeMax(a, b) == Max(a, b)

\* lines 52-57: one iteration of the loop over results
CollateStep(h, acc, r) ==
    [counter    |-> CounterUpdate(acc.counter, r.counter),
     fill_count |-> [j \in 1..Len(h) |-> acc.fill_count[j] + r.fill_count[j]],
     max_len    |-> [j \in 1..Len(h) |-> MergeMax(acc.max_len[j], r.max_len[j])],
     min_len    |-> [j \in 1..Len(h) |-> Min(acc.min_len[j], r.min_len[j])],
     sum_len    |-> [j \in 1..Len(h) |-> acc.sum_len[j] + r.sum_len[j]]]

RECURSIVE CollateFold(_, _, _)
CollateFold(h, acc, rs) ==
    IF rs = <<>> THEN acc
    ELSE CollateFold(h, CollateStep(h, acc, Head(rs)), Tail(rs))

\* the rows of header width only
NumRowsMatching(h, c) == CounterGet(c, Len(h))

\* line 59
NumRows(h, c) == CounterTotal(c)

\* lines 59-64; the division raises when no row was counted
collate(h, rs) ==
    LET acc == CollateFold(h, CollateInit(h), rs)
        num_rows == NumRows(h, acc.counter)
    IN  IF num_rows = 0 THEN Raised("ZeroDivisionError")
        ELSE [counter    |-> acc.counter,
              fill_count |-> acc.fill_count,
              max_len    |-> acc.max_len,
              min_len    |-> acc.min_len,
              avg_len    |-> [j \in 1..Len(h) |-> TrueDiv(acc.sum_len[j], num_rows)]]

\* multiread.read_stream, after the header line was parsed
read_stream(h, data) ==
    LET r == ReadAll(h, EmptyCounter, EmptyColumns(h), data)
    IN  IF IsRaised(r) THEN r ELSE collate(h, <<r>>)

----------------------------------------------------------------------------
(* multiread.main: the distributor, the worker processes and the collator *)

Workers == 1..num_workers

\* the state of a program that is not the one running
IdleMultiread ==
    /\ num_workers = 0
    /\ line_queue = <<>>
    /\ result_queue = <<>>
    /\ worker_pc = <<>>
    /\ counter = <<>>
    /\ column_lengths = <<>>
    /\ main_pc = "idle"
    /\ main_i = 0
    /\ results = <<>>
    /\ result = NoValue

IdleMultisplit ==
    /\ batches = <<>>
    /\ columns = <<>>
    /\ histogram = EmptyCounter
    /\ queues = <<>>
    /\ unfinished = <<>>
    /\ sink = <<>>
    /\ sink_state = <<>>
    /\ writer_pc = <<>>
    /\ lines = <<>>
    /\ split_pc = "idle"
    /\ split_j = 0
    /\ returned = NoValue

InitMultiread ==
    /\ mode = "multiread"
    /\ header \in Headers
    /\ input \in WorkerInputs
    /\ stdin = input
    /\ num_workers \in 1..MaxWorkers
    /\ line_queue = <<>>
    /\ result_queue = <<>>
    /\ worker_pc = [w \in Workers |-> "new"]
    /\ counter = [w \in Workers |-> EmptyCounter]
    /\ column_lengths = [w \in Workers |-> EmptyColumns(header)]
    /\ main_pc = "start"
    /\ main_i = 0
    /\ results = <<>>
    /\ result = NoValue
    /\ IdleMultisplit

\* file.readline(): the next line, or the empty string at the end of the
\* stream
readline(stream) == IF stream = <<>> THEN <<>> ELSE Head(stream)

\* main entered on a stream that ends before any header line
InitMultireadNoHeader ==
    /\ mode = "multiread"
    /\ header = <<>>
    /\ input = <<>>
    /\ stdin = <<>>
    /\ num_workers \in 1..MaxWorkers
    /\ line_queue = <<>>
    /\ result_queue = <<>>
    /\ worker_pc = [w \in Workers |-> "new"]
    /\ counter = [w \in Workers |-> EmptyCounter]
    /\ column_lengths = [w \in Workers |-> <<>>]
    /\ main_pc = "header"
    /\ main_i = 0
    /\ results = <<>>
    /\ result = NoValue
    /\ IdleMultisplit

\* line 68: the header is whatever readline returns, parsed; the workers
\* are given it as their argument (lines 71-72)
MainReadHeader ==
    /\ mode = "multiread" /\ main_pc = "header"
    /\ header' = parse_line(readline(stdin))
    /\ stdin' = IF stdin = <<>> THEN <<>> ELSE Tail(stdin)
    /\ column_lengths' = [w \in Workers |-> EmptyColumns(header')]
    /\ main_pc' = "start"
    /\ UNCHANGED msvars
    /\ UNCHANGED <<mode, input, num_workers, line_queue, result_queue,
                   worker_pc, counter, main_i, results, result>>

\* lines 71-74: the workers are created and started
MainStart ==
    /\ mode = "multiread" /\ main_pc = "start"
    /\ worker_pc' = [w \in Workers |-> "get"]
    /\ main_pc' = IF stdin = <<>> THEN "sentinel" ELSE "put"
    /\ UNCHANGED msvars
    /\ UNCHANGED <<mode, header, input, stdin, num_workers, line_queue,
                   result_queue, counter, column_lengths, main_i, results, result>>

\* lines 75-76: one line of stdin is put on the line queue
MainPut ==
    /\ mode = "multiread" /\ main_pc = "put"
    /\ line_queue' = Append(line_queue, Head(stdin))
    /\ stdin' = Tail(stdin)
    /\ main_pc' = IF Tail(stdin) = <<>> THEN "sentinel" ELSE "put"
    /\ UNCHANGED msvars
    /\ UNCHANGED <<mode, header, input, num_workers, result_queue, worker_pc,
                   counter, column_lengths, main_i, results, result>>

\* lines 77-78: one sentinel per worker
MainPutSentinel ==
    /\ mode = "multiread" /\ main_pc = "sentinel"
    /\ line_queue' = Append(line_queue, _SENTINEL)
    /\ main_i' = IF main_i + 1 = num_workers THEN 0 ELSE main_i + 1
    /\ main_pc' = IF main_i + 1 = num_workers THEN "join" ELSE "sentinel"
    /\ UNCHANGED msvars
    /\ UNCHANGED <<mode, header, input, stdin, num_workers, result_queue,
                   worker_pc, counter, column_lengths, results, result>>

\* lines 79-80: join returns once the worker's process has ended, whether
\* read returned or raised
MainJoin ==
    /\ mode = "multiread" /\ main_pc = "join"
    /\ worker_pc[main_i + 1] \in {"done", "failed"}
    /\ main_i' = IF main_i + 1 = num_workers THEN 0 ELSE main_i + 1
    /\ main_pc' = IF main_i + 1 = num_workers THEN "get" ELSE "join"
    /\ UNCHANGED msvars
    /\ UNCHANGED <<mode, header, input, stdin, num_workers, line_queue,
                   result_queue, worker_pc, counter, column_lengths, results, result>>

\* line 81: one result_queue.get() of the generator collate iterates; it
\* blocks while the result queue is empty
MainGet ==
    /\ mode = "multiread" /\ main_pc = "get"
    /\ result_queue # <<>>
    /\ results' = Append(results, Head(result_queue))
    /\ result_queue' = Tail(result_queue)
    /\ main_i' = IF main_i + 1 = num_workers THEN 0 ELSE main_i + 1
    /\ main_pc' = IF main_i + 1 = num_workers THEN "fold" ELSE "get"
    /\ UNCHANGED msvars
    /\ UNCHANGED <<mode, header, input, stdin, num_workers, line_queue,
                   worker_pc, counter, column_lengths, result>>

\* lines 81-87: collate returns and main prints the result
MainCollate ==
    /\ mode = "multiread" /\ main_pc = "fold"
    /\ result' = collate(header, results)
    /\ main_pc' = "done"
    /\ UNCHANGED msvars
    /\ UNCHANGED <<mode, header, input, stdin, num_workers, line_queue,
                   result_queue, worker_pc, counter, column_lengths, main_i, results>>

\* a loop that goes back to get whatever it popped
AfterGetNoBreak(item) == "get"

\* lines 25-26: the sentinel breaks the loop; any other item is followed
\* by the next get
AfterGet(item) == IF item = _SENTINEL THEN "emit" ELSE "get"

\* lines 24-34: a worker takes the head of the line queue (get blocks while
\* the queue is empty) and, unless it is the sentinel, tallies the line
WorkerGet(w) ==
    /\ mode = "multiread" /\ worker_pc[w] = "get"
    /\ line_queue # <<>>
    /\ line_queue' = Tail(line_queue)
    /\ worker_pc' = [worker_pc EXCEPT ![w] = AfterGet(Head(line_queue))]
    /\ IF Head(line_queue) = _SENTINEL
       THEN UNCHANGED <<counter, column_lengths>>
       ELSE /\ counter' = [counter EXCEPT
                  ![w] = CounterAfterLine(header, counter[w], Head(line_queue))]
            /\ column_lengths' = [column_lengths EXCEPT
                  ![w] = ColumnsAfterLine(header, column_lengths[w], Head(line_queue))]
    /\ UNCHANGED msvars
    /\ UNCHANGED <<mode, header, input, stdin, num_workers, result_queue,
                   main_pc, main_i, results, result>>

\* lines 38-42: after the sentinel the worker builds its partial result and
\* puts it on the result queue; if building it raises, the process ends
\* without a put
WorkerEmit(w) ==
    /\ mode = "multiread" /\ worker_pc[w] = "emit"
    /\ LET r == PartialResult(counter[w], column_lengths[w])
       IN  IF IsRaised(r)
           THEN /\ worker_pc' = [worker_pc EXCEPT ![w] = "failed"]
                /\ UNCHANGED result_queue
           ELSE /\ worker_pc' = [worker_pc EXCEPT ![w] = "done"]
                /\ result_queue' = Append(result_queue, r)
    /\ UNCHANGED msvars
    /\ UNCHANGED <<mode, header, input, stdin, num_workers, line_queue,
                   counter, column_lengths, main_pc, main_i, results, result>>

NextMultiread ==
    \/ MainReadHeader
    \/ MainStart
    \/ MainPut
    \/ MainPutSentinel
    \/ MainJoin
    \/ MainGet
    \/ MainCollate
    \/ \E w \in Workers : WorkerGet(w)
    \/ \E w \in Workers : WorkerEmit(w)

vars == <<mode, header, input, stdin, mrvars, msvars>>

SpecMultiread ==
    (InitMultiread \/ InitMultireadNoHeader) /\ [][NextMultiread]_vars

----------------------------------------------------------------------------
(* multisplit: make_batches, populate_queues, split and writer_thread *)

\* multisplit.py line 9: None, which is no list of values
SENTINEL == << <<"None">> >>

\* csv.reader(fin, delimiter='|') on one line without quote characters: the
\* line terminator is dropped, an empty line is the empty row
csv_row(line) ==
    IF rstrip(line) = <<>> THEN <<>> ELSE split_str(rstrip(line), "|")

csv_reader(data) == [i \in 1..Len(data) |-> csv_row(data[i])]

\* the loop without the yield that follows it
RECURSIVE make_batches_no_flush(_, _, _, _)
make_batches_no_flush(rows, batch, batch_size, yielded) ==
    IF rows = <<>> THEN yielded
    ELSE IF Len(batch) = batch_size
         THEN make_batches_no_flush(Tail(rows), <<Head(rows)>>, batch_size,
                                    Append(yielded, batch))
         ELSE make_batches_no_flush(Tail(rows), Append(batch, Head(rows)),
                                    batch_size, yielded)

\* lines 27-35: the loop of make_batches, with the batch being filled and
\* the batches yielded so far
RECURSIVE make_batches_loop(_, _, _, _)
make_batches_loop(rows, batch, batch_size, yielded) ==
    IF rows = <<>>
    THEN IF batch # <<>> THEN Append(yielded, batch) ELSE yielded
    ELSE IF Len(batch) = batch_size
         THEN make_batches_loop(Tail(rows), <<Head(rows)>>, batch_size,
                                Append(yielded, batch))
         ELSE make_batches_loop(Tail(rows), Append(batch, Head(rows)), batch_size,
                                yielded)

make_batches(rows, batch_size) == make_batches_loop(rows, <<>>, batch_size, <<>>)

\* line 41: histogram.update(len(row) for row in batch)
RECURSIVE HistogramUpdate(_, _)
HistogramUpdate(hist, batch) ==
    IF batch = <<>> THEN hist
    ELSE HistogramUpdate(CounterIncr(hist, Len(Head(batch))), Tail(batch))

\* column lists with each value put in front of the ones before it
RECURSIVE BatchColumnsPrepend(_, _, _)
BatchColumnsPrepend(h, cols, batch) ==
    IF batch = <<>> THEN cols
    ELSE LET row == Head(batch)
         IN  IF Len(h) # Len(row) THEN BatchColumnsPrepend(h, cols, Tail(batch))
             ELSE BatchColumnsPrepend(h, [j \in 1..Len(h) |-> <<row[j]>> \o cols[j]],
                                      Tail(batch))

\* lines 42-47: the column lists of one batch
RECURSIVE BatchColumns(_, _, _)
BatchColumns(h, cols, batch) ==
    IF batch = <<>> THEN cols
    ELSE LET row == Head(batch)
         IN  IF Len(h) # Len(row) THEN BatchColumns(h, cols, Tail(batch))
             ELSE BatchColumns(h, [j \in 1..Len(h) |-> Append(cols[j], row[j])],
                               Tail(batch))

\* b'\n'.join(values)
RECURSIVE Join(_)
Join(values) ==
    IF values = <<>> THEN <<>>
    ELSE IF Len(values) = 1 THEN values[1]
         ELSE values[1] \o <<NL>> \o Join(Tail(values))

\* the write without the newline that ends it
WrittenUnterminated(values) == Join(values)

\* line 23: what one write appends to the file
Written(values) == Join(values) \o <<NL>>

InitMultisplit ==
    /\ mode = "multisplit"
    /\ header \in Headers
    /\ input \in Inputs
    /\ stdin = input
    /\ IdleMultiread
    /\ batches = <<>>
    /\ columns = <<>>
    /\ histogram = EmptyCounter
    /\ queues = [j \in Cols |-> <<>>]
    /\ unfinished = [j \in Cols |-> 0]
    /\ sink = [j \in Cols |-> <<>>]
    /\ sink_state = [j \in Cols |-> "none"]
    /\ writer_pc = [j \in Cols |-> "new"]
    /\ lines = [j \in Cols |-> TRUE]
    /\ split_pc = "start"
    /\ split_j = 0
    /\ returned = NoValue

\* split entered on a stream that ends before any header line, or that
\* holds a header line and no data
InitMultisplitNoHeader ==
    /\ mode = "multisplit"
    /\ header = <<>>
    /\ input = <<>>
    /\ stdin \in {<<>>} \cup {<<h>> : h \in HeaderLines}
    /\ IdleMultiread
    /\ batches = <<>>
    /\ columns = <<>>
    /\ histogram = EmptyCounter
    /\ queues = <<>>
    /\ unfinished = <<>>
    /\ sink = <<>>
    /\ sink_state = <<>>
    /\ writer_pc = <<>>
    /\ lines = <<>>
    /\ split_pc = "header"
    /\ split_j = 0
    /\ returned = NoValue

\* lines 56-63: next(reader) raises StopIteration at the end of the stream,
\* and split ends there; otherwise the row is the header and one queue and
\* one thread per column are created
SplitReadHeader ==
    /\ mode = "multisplit" /\ split_pc = "header"
    /\ IF stdin = <<>>
       THEN /\ split_pc' = "raised"
            /\ returned' = Raised("StopIteration")
            /\ UNCHANGED <<header, stdin, queues, unfinished, sink, sink_state,
                           writer_pc, lines>>
       ELSE /\ header' = csv_row(Head(stdin))
            /\ stdin' = Tail(stdin)
            /\ queues' = [j \in 1..Len(header') |-> <<>>]
            /\ unfinished' = [j \in 1..Len(header') |-> 0]
            /\ sink' = [j \in 1..Len(header') |-> <<>>]
            /\ sink_state' = [j \in 1..Len(header') |-> "none"]
            /\ writer_pc' = [j \in 1..Len(header') |-> "new"]
            /\ lines' = [j \in 1..Len(header') |-> TRUE]
            /\ split_pc' = "start"
            /\ UNCHANGED returned
    /\ UNCHANGED mrvars
    /\ UNCHANGED <<mode, input, batches, columns, histogram, split_j>>

\* lines 59-65: the queues and threads are created, the threads started,
\* and populate_queues is entered (line 39)
SplitStart ==
    /\ mode = "multisplit" /\ split_pc = "start"
    /\ writer_pc' = [j \in Cols |-> "open"]
    /\ batches' = make_batches(csv_reader(stdin), BatchSize)
    /\ stdin' = <<>>
    /\ histogram' = EmptyCounter
    /\ split_pc' = "batch"
    /\ UNCHANGED mrvars
    /\ UNCHANGED <<mode, header, input, columns, queues, unfinished, sink,
                   sink_state, lines, split_j, returned>>

\* lines 40-47: the next batch is taken, tallied and cut into columns; with
\* no batch left the loop ends
PopulateBatch ==
    /\ mode = "multisplit" /\ split_pc = "batch"
    /\ IF batches = <<>>
       THEN /\ split_pc' = "sentinel"
            /\ UNCHANGED <<batches, histogram, columns>>
       ELSE /\ histogram' = HistogramUpdate(histogram, Head(batches))
            /\ columns' = BatchColumns(header, [j \in Cols |-> <<>>], Head(batches))
            /\ batches' = Tail(batches)
            /\ split_pc' = "put"
    /\ split_j' = 0
    /\ UNCHANGED mrvars
    /\ UNCHANGED <<mode, header, input, stdin, queues, unfinished, sink,
                   sink_state, writer_pc, lines, returned>>

QueuePut(j, item) ==
    /\ queues' = [queues EXCEPT ![j] = Append(@, item)]
    /\ unfinished' = [unfinished EXCEPT ![j] = @ + 1]

\* lines 48-49: the column list of the batch is put on the column's queue
PopulatePut ==
    /\ mode = "multisplit" /\ split_pc = "put"
    /\ QueuePut(split_j + 1, columns[split_j + 1])
    /\ split_j' = IF split_j + 1 = Len(header) THEN 0 ELSE split_j + 1
    /\ split_pc' = IF split_j + 1 = Len(header) THEN "batch" ELSE "put"
    /\ UNCHANGED mrvars
    /\ UNCHANGED <<mode, header, input, stdin, batches, columns, histogram,
                   sink, sink_state, writer_pc, lines, returned>>

\* lines 50-51: one sentinel per queue
PopulateSentinel ==
    /\ mode = "multisplit" /\ split_pc = "sentinel"
    /\ QueuePut(split_j + 1, SENTINEL)
    /\ split_j' = IF split_j + 1 = Len(header) THEN 0 ELSE split_j + 1
    /\ split_pc' = IF split_j + 1 = Len(header) THEN "join" ELSE "sentinel"
    /\ UNCHANGED mrvars
    /\ UNCHANGED <<mode, header, input, stdin, batches, columns, histogram,
                   sink, sink_state, writer_pc, lines, returned>>

\* a join that watches the last queue only
JoinedLastOnly(j) == unfinished[Len(header)] = 0

\* Queue.join(): blocks until every item put has been marked task_done
Joined(j) == unfinished[j] = 0

\* lines 67-70: the queues are joined in turn; after the last join split
\* returns the histogram
SplitJoin ==
    /\ mode = "multisplit" /\ split_pc = "join"
    /\ Joined(split_j + 1)
    /\ split_j' = IF split_j + 1 = Len(header) THEN 0 ELSE split_j + 1
    /\ split_pc' = IF split_j + 1 = Len(header) THEN "done" ELSE "join"
    /\ returned' = IF split_j + 1 = Len(header) THEN histogram ELSE returned
    /\ UNCHANGED mrvars
    /\ UNCHANGED <<mode, header, input, stdin, batches, columns, histogram,
                   queues, unfinished, sink, sink_state, writer_pc, lines>>

\* line 18: the file is opened for writing, which empties it
WriterOpen(j) ==
    /\ mode \in {"multisplit", "writer"} /\ writer_pc[j] = "open"
    /\ sink' = [sink EXCEPT ![j] = <<>>]
    /\ sink_state' = [sink_state EXCEPT ![j] = "open"]
    /\ writer_pc' = [writer_pc EXCEPT ![j] = "get"]
    /\ UNCHANGED mrvars
    /\ UNCHANGED <<mode, header, input, stdin, batches, columns, histogram,
                   queues, unfinished, lines, split_pc, split_j, returned>>

\* lines 20-21: the loop is entered while lines is not the sentinel, and
\* get blocks while the queue is empty
WriterGet(j) ==
    /\ mode \in {"multisplit", "writer"} /\ writer_pc[j] = "get"
    /\ queues[j] # <<>>
    /\ lines' = [lines EXCEPT ![j] = Head(queues[j])]
    /\ queues' = [queues EXCEPT ![j] = Tail(@)]
    /\ writer_pc' = [writer_pc EXCEPT
          ![j] = IF Head(queues[j]) = SENTINEL THEN "task_done" ELSE "write"]
    /\ UNCHANGED mrvars
    /\ UNCHANGED <<mode, header, input, stdin, batches, columns, histogram,
                   unfinished, sink, sink_state, split_pc, split_j, returned>>

\* lines 22-23
WriterWrite(j) ==
    /\ mode \in {"multisplit", "writer"} /\ writer_pc[j] = "write"
    /\ sink' = [sink EXCEPT ![j] = @ \o Written(lines[j])]
    /\ writer_pc' = [writer_pc EXCEPT ![j] = "task_done"]
    /\ UNCHANGED mrvars
    /\ UNCHANGED <<mode, header, input, stdin, batches, columns, histogram,
                   queues, unfinished, sink_state, lines, split_pc, split_j,
                   returned>>

\* a loop test that never fails
AfterTaskDoneNoExit(item) == "get"

\* line 20: the loop is left when the item just handled is the sentinel
AfterTaskDone(item) == IF item = SENTINEL THEN "close" ELSE "get"

\* line 24, and the loop test of line 20
WriterTaskDone(j) ==
    /\ mode \in {"multisplit", "writer"} /\ writer_pc[j] = "task_done"
    /\ unfinished' = [unfinished EXCEPT ![j] = @ - 1]
    /\ writer_pc' = [writer_pc EXCEPT ![j] = AfterTaskDone(lines[j])]
    /\ UNCHANGED mrvars
    /\ UNCHANGED <<mode, header, input, stdin, batches, columns, histogram,
                   queues, sink, sink_state, lines, split_pc, split_j, returned>>

\* line 18: leaving the with block closes the file, and the thread ends
WriterClose(j) ==
    /\ mode \in {"multisplit", "writer"} /\ writer_pc[j] = "close"
    /\ sink_state' = [sink_state EXCEPT ![j] = "closed"]
    /\ writer_pc' = [writer_pc EXCEPT ![j] = "done"]
    /\ UNCHANGED mrvars
    /\ UNCHANGED <<mode, header, input, stdin, batches, columns, histogram,
                   queues, unfinished, sink, lines, split_pc, split_j, returned>>

NextMultisplit ==
    \/ SplitReadHeader
    \/ SplitStart
    \/ PopulateBatch
    \/ PopulatePut
    \/ PopulateSentinel
    \/ SplitJoin
    \/ \E j \in Cols : WriterOpen(j)
    \/ \E j \in Cols : WriterGet(j)
    \/ \E j \in Cols : WriterWrite(j)
    \/ \E j \in Cols : WriterTaskDone(j)
    \/ \E j \in Cols : WriterClose(j)

SpecMultisplit ==
    (InitMultisplit \/ InitMultisplitNoHeader) /\ [][NextMultisplit]_vars

----------------------------------------------------------------------------
(* writer_thread run on its own, on a queue filled beforehand *)

\* test.py lines 52-54: the values of the test's two batches
Foo == <<"f", "o", "o">>
Bar == <<"b", "a", "r">>
Baz == <<"b", "a", "z">>

\* the batches a queue is filled from: the two of the test, and one whose
\* only value is empty
BatchSet == { <<Foo, Bar>>, <<Baz>>, << <<>> >> }

\* test.py lines 51-57: the queue holds the batches and then the sentinel,
\* none of them acknowledged, and the thread is started; input holds the
\* batches
InitWriter ==
    /\ mode = "writer"
    /\ header = << <<"a">> >>
    /\ input \in SeqsUpTo(BatchSet, MaxBatches)
    /\ stdin = <<>>
    /\ IdleMultiread
    /\ batches = <<>>
    /\ columns = <<>>
    /\ histogram = EmptyCounter
    /\ queues = << input \o <<SENTINEL>> >>
    /\ unfinished = << Len(input) + 1 >>
    /\ sink = << <<>> >>
    /\ sink_state = << "none" >>
    /\ writer_pc = << "open" >>
    /\ lines = << TRUE >>
    /\ split_pc = "idle"
    /\ split_j = 0
    /\ returned = NoValue

NextWriter ==
    \/ \E j \in Cols : WriterOpen(j)
    \/ \E j \in Cols : WriterGet(j)
    \/ \E j \in Cols : WriterWrite(j)
    \/ \E j \in Cols : WriterTaskDone(j)
    \/ \E j \in Cols : WriterClose(j)

\* a started thread that can take a step is scheduled in the end
SpecWriter == InitWriter /\ [][NextWriter]_vars /\ WF_vars(NextWriter)

----------------------------------------------------------------------------
(* read.py: the sequential reader *)

\* lines 15-20, dumb_reader: the rows of the stream
dumb_reader(data) == [i \in 1..Len(data) |-> split_str(rstrip(data[i]), "|")]

\* lines 63-66
ReadInit(h) ==
    [counter    |-> EmptyCounter,
     fill_count |-> [j \in 1..Len(h) |-> 0],
     max_len    |-> [j \in 1..Len(h) |-> 0],
     min_len    |-> [j \in 1..Len(h) |-> maxint],
     sum_len    |-> [j \in 1..Len(h) |-> 0]]

\* lines 76-77: fill_count[j] += 1 iff the field is not empty
FillIncr(n, col_len) == IF col_len # 0 THEN n + 1 ELSE n

\* lines 68-77: the update for one row
ReadRow(h, st, row) ==
    IF Len(row) # Len(h)
    THEN [st EXCEPT !.counter = CounterIncr(st.counter, Len(row))]
    ELSE [counter    |-> CounterIncr(st.counter, Len(row)),
          fill_count |-> [j \in 1..Len(h) |-> FillIncr(st.fill_count[j], Len(row[j]))],
          max_len    |-> [j \in 1..Len(h) |-> Max(st.max_len[j], Len(row[j]))],
          min_len    |-> [j \in 1..Len(h) |-> Min(st.min_len[j], Len(row[j]))],
          sum_len    |-> [j \in 1..Len(h) |-> st.sum_len[j] + Len(row[j])]]

RECURSIVE ReadRows(_, _, _)
ReadRows(h, st, rows) ==
    IF rows = <<>> THEN st ELSE ReadRows(h, ReadRow(h, st, Head(rows)), Tail(rows))

\* lines 60-84, read: the five values it prints; the division raises when
\* the stream has no data row
read(h, data) ==
    LET st == ReadRows(h, ReadInit(h), dumb_reader(data))
        num_rows == CounterTotal(st.counter)
    IN  IF num_rows = 0 THEN Raised("ZeroDivisionError")
        ELSE [counter    |-> st.counter,
              fill_count |-> st.fill_count,
              max_len    |-> st.max_len,
              min_len    |-> st.min_len,
              avg_len    |-> [j \in 1..Len(h) |-> TrueDiv(st.sum_len[j], num_rows)]]

----------------------------------------------------------------------------
(* The functions called on their own: read_stream, read.read and collate *)

\* a partial result with no row of header width, as collate's own seed
\* values give it: counts 0, max_len 0, min_len the maxint seed
ZeroPartial(h, c) == [CollateInit(h) EXCEPT !.counter = c]

\* the partial results collate is called on: those read builds from up to
\* two lines, and those of a worker that saw no row of header width
PartialsOf(h) ==
    LET built == { ReadAll(h, EmptyCounter, EmptyColumns(h), g) :
                     g \in SeqsUpTo(LineSet, 2) }
        unmatched == { g \in SeqsUpTo(LineSet, 1) :
                         \A i \in 1..Len(g) : Len(parse_line(g[i])) # Len(h) }
    IN  { r \in built : ~IsRaised(r) }
        \cup { ZeroPartial(h, HistogramUpdate(EmptyCounter, dumb_reader(g))) :
                 g \in unmatched }

InitFunction ==
    /\ mode = "function"
    /\ \/ /\ header \in Headers
          /\ input \in Inputs
          /\ results = <<>>
          /\ main_pc \in {"call read_stream", "call read"}
       \/ /\ header = ToyHeader
          /\ input = ToyLines
          /\ results = <<>>
          /\ main_pc \in {"call read_stream", "call read"}
       \/ /\ header \in Headers
          /\ input = <<>>
          /\ results \in SeqsUpTo(PartialsOf(header), 2)
          /\ main_pc = "call collate"
       \/ /\ header = <<>>
          /\ input \in Inputs
          /\ results = <<>>
          /\ main_pc = "call make_batches"
    /\ stdin = input
    /\ num_workers = 0
    /\ line_queue = <<>>
    /\ result_queue = <<>>
    /\ worker_pc = <<>>
    /\ counter = <<>>
    /\ column_lengths = <<>>
    /\ main_i = 0
    /\ result = NoValue
    /\ IdleMultisplit

\* multiread.py line 110: read_stream(sys.stdin)
CallReadStream ==
    /\ mode = "function" /\ main_pc = "call read_stream"
    /\ result' = read_stream(header, input)
    /\ main_pc' = "read_stream"
    /\ UNCHANGED msvars
    /\ UNCHANGED <<mode, header, input, stdin, num_workers, line_queue,
                   result_queue, worker_pc, counter, column_lengths, main_i, results>>

\* read.py line 95: read(reader)
CallRead ==
    /\ mode = "function" /\ main_pc = "call read"
    /\ result' = read(header, input)
    /\ main_pc' = "read"
    /\ UNCHANGED msvars
    /\ UNCHANGED <<mode, header, input, stdin, num_workers, line_queue,
                   result_queue, worker_pc, counter, column_lengths, main_i, results>>

\* collate(header, results) on a list of partial results
CallCollate ==
    /\ mode = "function" /\ main_pc = "call collate"
    /\ result' = collate(header, results)
    /\ main_pc' = "collate"
    /\ UNCHANGED msvars
    /\ UNCHANGED <<mode, header, input, stdin, num_workers, line_queue,
                   result_queue, worker_pc, counter, column_lengths, main_i, results>>

\* make_batches(iterable, batch_size) run to its end on a sequence, for a
\* batch size of 1 or more; the result keeps the size with the batches
CallMakeBatches ==
    /\ mode = "function" /\ main_pc = "call make_batches"
    /\ \E n \in 1..MaxRows :
           result' = [batch_size |-> n, yielded |-> make_batches(input, n)]
    /\ main_pc' = "make_batches"
    /\ UNCHANGED msvars
    /\ UNCHANGED <<mode, header, input, stdin, num_workers, line_queue,
                   result_queue, worker_pc, counter, column_lengths, main_i, results>>

NextFunction ==
    \/ CallReadStream
    \/ CallRead
    \/ CallCollate
    \/ CallMakeBatches

SpecFunction == InitFunction /\ [][NextFunction]_vars

----------------------------------------------------------------------------
(* The three programs together: one of them runs in each behaviour *)

Init ==
    \/ InitMultiread
    \/ InitMultireadNoHeader
    \/ InitFunction
    \/ InitMultisplit
    \/ InitMultisplitNoHeader
    \/ InitWriter

Next == NextMultiread \/ NextFunction \/ NextMultisplit

Spec == Init /\ [][Next]_vars

----------------------------------------------------------------------------
(* What the input holds, computed from the input alone *)

\* the data lines whose row has the header's width
MatchIdx(h, data) == {i \in 1..Len(data) : Len(parse_line(data[i])) = Len(h)}

FieldLen(data, i, j) == Len(parse_line(data[i])[j])

\* the sum, over the rows of header width, of the length of field j
ColSum(h, data, j) ==
    LET f == [i \in MatchIdx(h, data) |-> FieldLen(data, i, j)]
    IN  SumOver(f, DOMAIN f)

IsAggregate(v) == "avg_len" \in DOMAIN v

AllWorkersEnded == \A w \in Workers : worker_pc[w] \in {"done", "failed"}

Range(q) == {q[i] : i \in 1..Len(q)}

Perms(n) == {p \in [1..n -> 1..n] : \A a, b \in 1..n : p[a] = p[b] => a = b}

Permuted(rs, p) == [i \in 1..Len(rs) |-> rs[p[i]]]

\* the accumulators of collate after a list of partial results
Folded(h, rs) == CollateFold(h, CollateInit(h), rs)

\* what sink j is to hold: the field-j values of the rows of header width,
\* in input order, each followed by one newline
ExpectedSink(h, data, j) ==
    LET rows == csv_reader(data)
        F[i \in 0..Len(rows)] ==
            IF i = 0 THEN <<>>
            ELSE IF Len(rows[i]) = Len(h) THEN F[i - 1] \o rows[i][j] \o <<NL>>
                 ELSE F[i - 1]
    IN  F[Len(rows)]

\* the column-j lists populate_queues makes of an input, one per batch
PutBatches(h, data, j) ==
    LET bs == make_batches(csv_reader(data), BatchSize)
    IN  [b \in 1..Len(bs) |->
            BatchColumns(h, [c \in 1..Len(h) |-> <<>>], bs[b])[j]]

\* what the writes of a sequence of column lists leave in a file
RECURSIVE AllWritten(_)
AllWritten(bs) ==
    IF bs = <<>> THEN <<>> ELSE Written(Head(bs)) \o AllWritten(Tail(bs))

IsPrefix(s, t) == Len(s) <= Len(t) /\ s = SubSeq(t, 1, Len(s))

\* the content of sink j as a function of the input alone: the rows are
\* taken BatchSize at a time, and each group leaves the field-j values of
\* its rows of header width, one per line, or one empty line when it has
\* no such row
SinkOf(h, data, j) ==
    LET rows == csv_reader(data)
        n == Len(rows)
        Values[i \in 0..n] ==
            IF i = 0 THEN <<>>
            ELSE (IF (i - 1) % BatchSize = 0 THEN <<>> ELSE Values[i - 1])
                 \o (IF Len(rows[i]) = Len(h) THEN rows[i][j] \o <<NL>> ELSE <<>>)
        Text[i \in 0..n] ==
            IF i = 0 THEN <<>>
            ELSE IF i % BatchSize = 0 \/ i = n
                 THEN Text[i - 1] \o (IF Values[i] = <<>> THEN <<NL>> ELSE Values[i])
                 ELSE Text[i - 1]
    IN  Text[n]

\* the histogram as a function of the input alone: for each width that
\* occurs, the number of rows of that width
HistogramOf(data) ==
    LET rows == csv_reader(data)
    IN  [w \in {Len(rows[i]) : i \in 1..Len(rows)} |->
            Cardinality({i \in 1..Len(rows) : Len(rows[i]) = w})]

\* the sentinels main has put so far, from its position in lines 75-78
SentinelsPut ==
    IF main_pc \in {"header", "start", "put"} THEN 0
    ELSE IF main_pc = "sentinel" THEN main_i
    ELSE num_workers

SentinelsQueued ==
    Cardinality({i \in 1..Len(line_queue) : line_queue[i] = _SENTINEL})

\* the workers that have left the loop of read
Stopped == {w \in Workers : worker_pc[w] \in {"emit", "done", "failed"}}

\* the values of a list of batches, in order, each followed by a newline
RECURSIVE ValuesOnePerLine(_)
ValuesOnePerLine(bs) ==
    IF bs = <<>> THEN <<>>
    ELSE IF Head(bs) = <<>> THEN ValuesOnePerLine(Tail(bs))
    ELSE Head(bs)[1] \o <<NL>>
           \o ValuesOnePerLine(<<Tail(Head(bs))>> \o Tail(bs))

\* writer_thread alone: the items it has got, the task_done calls it has
\* made and the batches it has written, from the queue it was given
WriterGets == Len(input) + 1 - Len(queues[1])

WriterAcks == Len(input) + 1 - unfinished[1]

WriterWrites ==
    IF writer_pc[1] = "write" THEN WriterGets - 1
    ELSE Min(WriterGets, Len(input))

WriterProtocol ==
    /\ WriterAcks =
           WriterGets - (IF writer_pc[1] \in {"write", "task_done"} THEN 1 ELSE 0)
    /\ writer_pc[1] = "get" => queues[1] # <<>>
    /\ WriterGets = Len(input) + 1 =>
           /\ writer_pc[1] \in {"task_done", "close", "done"}
           /\ lines[1] = SENTINEL
    /\ sink[1] = ValuesOnePerLine(SubSeq(input, 1, WriterWrites))
    /\ writer_pc[1] \in {"close", "done"} =>
           /\ WriterAcks = Len(input) + 1
           /\ unfinished[1] = 0
           /\ sink[1] = ValuesOnePerLine(input)

\* the field-j values of the rows of header width, in input order
FieldValues(h, data, j) ==
    LET rows == csv_reader(data)
        F[i \in 0..Len(rows)] ==
            IF i = 0 THEN <<>>
            ELSE IF Len(rows[i]) = Len(h) THEN Append(F[i - 1], rows[i][j])
                 ELSE F[i - 1]
    IN  F[Len(rows)]

\* the values of the batches among the items of a queue, in queue order
RECURSIVE QueuedValues(_)
QueuedValues(q) ==
    IF q = <<>> THEN <<>>
    ELSE IF Head(q) = SENTINEL THEN QueuedValues(Tail(q))
    ELSE Head(q) \o QueuedValues(Tail(q))

\* writer j has not reached its first get, so queue j holds all that was
\* put on it
NothingTaken(j) == writer_pc[j] \in {"new", "open"}

\* populate_queues has returned
AllPut == split_pc \in {"join", "done"}

\* the elements of a list of batches, in order
RECURSIVE Concat(_)
Concat(bs) == IF bs = <<>> THEN <<>> ELSE Head(bs) \o Concat(Tail(bs))

\* the aggregates collate returned, and the sum of lengths behind each
HasAggregate ==
    /\ main_pc \in {"done", "read_stream", "collate"}
    /\ IsAggregate(result)

AggregateSum(j) ==
    IF main_pc = "collate" THEN Folded(header, results).sum_len[j]
    ELSE ColSum(header, input, j)

\* the two relations between the statistics of a partial result or an
\* aggregate r: no column has more filled values than there are rows of
\* header width, and with one such row or more no minimum exceeds its maximum
StatsOk(r) ==
    LET matching == CounterGet(r.counter, Len(header))
    IN  \A j \in Cols :
            /\ r.fill_count[j] <= matching
            /\ matching >= 1 => r.min_len[j] <= r.max_len[j]

\* test.py lines 23-29: the expected result of the toy example, avg_len as
\* the rationals 7/3 and 1
ToyExpected ==
    [counter    |-> (1 :> 1) @@ (2 :> 2),
     fill_count |-> <<2, 1>>,
     max_len    |-> <<6, 3>>,
     min_len    |-> <<1, 0>>,
     avg_len    |-> << [num |-> 7, den |-> 3], [num |-> 1, den |-> 1] >>]

----------------------------------------------------------------------------
(* Claims *)

\* C1: for every input on which the single worker of read_stream yields an
\* aggregate, main with N workers is never left waiting for a partial
\* result no worker will put, and the aggregate it ends with is that of
\* read_stream on the same input.
C1_SameAsSingleWorker ==
    (mode = "multiread" /\ IsAggregate(read_stream(header, input))) =>
        /\ ~(AllWorkersEnded /\ main_pc = "get" /\ result_queue = <<>>)
        /\ (main_pc = "done" => result = read_stream(header, input))

\* C2: main completes: once every worker has popped its sentinel and
\* ended, each has put one partial result, so the result queue and the
\* results main already took hold N of them.
C2_MainCompletes ==
    (mode = "multiread" /\ AllWorkersEnded) =>
        Len(result_queue) + Len(results) = num_workers

\* C3: when split has returned, sink j holds exactly the field-j values of
\* the rows of header width, in input order, each followed by one newline.
C3_SinkHoldsMatchingValues ==
    (mode = "multisplit" /\ split_pc = "done") =>
        \A j \in Cols : sink[j] = ExpectedSink(header, input, j)

\* C4: collate gives the same aggregate for the partial results in any
\* order; folding two groups of them apart and then folding the two
\* outcomes gives the same accumulators as folding them all; and however
\* the lines were shared among the workers that emitted, the aggregate is
\* that of the single group holding every line.
C4_CollateOrderIndependent ==
    main_pc \in {"done", "collate"} =>
        /\ result = collate(header, results)
        /\ \A p \in Perms(Len(results)) :
               collate(header, Permuted(results, p)) = result
        /\ \A k \in 0..Len(results) :
               Folded(header, << Folded(header, SubSeq(results, 1, k)),
                                 Folded(header, SubSeq(results, k + 1, Len(results))) >>)
                 = Folded(header, results)
        /\ mode = "multiread" => result = read_stream(header, input)

C4_Witness ==
    /\ mode = "multiread" /\ main_pc = "done"
    /\ Len(results) = 2
    /\ results[1].max_len # results[2].max_len
    /\ results[1].min_len # results[2].min_len

\* C5: a worker that has popped its sentinel without having received a row
\* of header width has ended without failing, and a partial result with
\* its histogram and with fill_count and sum_len 0 for every column was put
\* on the result queue.
C5_NoMatchingRowStillEmits ==
    mode = "multiread" =>
        \A w \in Workers :
            (worker_pc[w] \in {"done", "failed"} /\ column_lengths[w][1] = <<>>) =>
                /\ worker_pc[w] = "done"
                /\ \E r \in Range(result_queue \o results) :
                       /\ r.counter = counter[w]
                       /\ \A j \in Cols : r.fill_count[j] = 0 /\ r.sum_len[j] = 0

\* C6 as claimed: avg_len[j] * histogram[C] = sum_len[j] in every aggregate
\* collate returns.
C6_AvgOverMatchingRows ==
    HasAggregate =>
        \A j \in Cols :
            result.avg_len[j].num * CounterGet(result.counter, Len(header))
              = AggregateSum(j) * result.avg_len[j].den

\* C6 as amended: avg_len[j] * sum(histogram.values()) = sum_len[j] in
\* every aggregate collate returns: the divisor is the number of all data
\* rows counted, those of another width included.
C6_AvgOverAllRows ==
    HasAggregate =>
        \A j \in Cols :
            result.avg_len[j].num * CounterTotal(result.counter)
              = AggregateSum(j) * result.avg_len[j].den

C6_Witness ==
    /\ mode = "multiread" /\ main_pc = "done" /\ IsAggregate(result)
    /\ CounterGet(result.counter, Len(header)) < CounterTotal(result.counter)
    /\ \E j \in Cols : ColSum(header, input, j) > 0

C8_ColumnStatistics ==
    (mode = "function" /\ main_pc = "read_stream" /\ MatchIdx(header, input) # {}) =>
        LET M == MatchIdx(header, input)
            kept == SelectSeq(input, LAMBDA l : Len(parse_line(l)) = Len(header))
            alone == read_stream(header, kept)
            seq == read(header, input)
                whole == ReadAll(header, EmptyCounter, EmptyColumns(header), input)
            part == ReadAll(header, EmptyCounter, EmptyColumns(header), kept)
        IN  /\ IsAggregate(result)
            /\ [whole EXCEPT !.counter = part.counter] = part
            /\ \A j \in Cols :
                 /\ result.fill_count[j] =
                        Cardinality({i \in M : FieldLen(input, i, j) > 0})
                 /\ \E i \in M : result.max_len[j] = FieldLen(input, i, j)
                 /\ \A i \in M : result.max_len[j] >= FieldLen(input, i, j)
                 /\ \E i \in M : result.min_len[j] = FieldLen(input, i, j)
                 /\ \A i \in M : result.min_len[j] <= FieldLen(input, i, j)
            /\ result.fill_count = seq.fill_count
            /\ result.max_len = seq.max_len
            /\ result.min_len = seq.min_len
            /\ result.fill_count = alone.fill_count
            /\ result.max_len = alone.max_len
            /\ result.min_len = alone.min_len

C8_Witness ==
    /\ mode = "function" /\ main_pc = "read_stream"
    /\ Cardinality(MatchIdx(header, input)) = 2
    /\ Len(input) = 3
    /\ IsAggregate(result)
    /\ result.fill_count[1] = 1
    /\ result.max_len[1] > result.min_len[1]

\* C9: in multiread every data line is, at every moment, either not yet
\* read, on the line queue, or tallied by exactly one worker; the histogram
\* main ends with sums to the number of data lines and its count for the
\* header width is the number of rows the workers entered into their
\* column lengths; the histogram split returns sums to the number of data
\* rows and its count for the header width is the number of rows of that
\* width.
C9_HistogramComplete ==
    /\ mode = "multiread" =>
         LET tallied == [w \in Workers |-> CounterTotal(counter[w])]
             queued == Cardinality({i \in 1..Len(line_queue) :
                                       line_queue[i] # _SENTINEL})
             used == [w \in Workers |-> Len(column_lengths[w][1])]
         IN  /\ SumOver(tallied, Workers) + queued + Len(stdin) = Len(input)
             /\ main_pc = "done" =>
                  /\ CounterTotal(result.counter) = Len(input)
                  /\ CounterGet(result.counter, Len(header)) = SumOver(used, Workers)
                  /\ SumOver(used, Workers) = Cardinality(MatchIdx(header, input))
    /\ (mode = "multisplit" /\ split_pc = "done") =>
         /\ CounterTotal(returned) = Len(input)
         /\ CounterGet(returned, Len(header)) =
                Cardinality({i \in 1..Len(input) :
                               Len(csv_row(input[i])) = Len(header)})

C9_Witness ==
    /\ mode = "multiread" /\ main_pc = "done" /\ num_workers = 2
    /\ Len(input) = 3
    /\ CounterGet(result.counter, Len(header)) = 2

\* C10: when the partial results given to collate count no row of header
\* width, collate does not raise and no avg_len[j] it returns is the
\* number 0.
C10_NoDataIsDistinct ==
    (mode = "function" /\ main_pc = "collate"
       /\ CounterGet(Folded(header, results).counter, Len(header)) = 0) =>
        /\ ~IsRaised(result)
        /\ \A j \in Cols : result.avg_len[j] # TrueDiv(0, 1)

\* C11: on a stream that ends before any header line, main and split have
\* ended with an error once past their header read, with no worker and no
\* writer thread started, nothing on any queue, and no aggregate and no
\* histogram returned.
C11_NoHeaderAborts ==
    /\ (mode = "multiread" /\ main_pc # "header" /\ input = <<>>
          /\ header = parse_line(readline(<<>>))) =>
         /\ main_pc = "raised"
         /\ \A w \in Workers : worker_pc[w] = "new"
         /\ line_queue = <<>>
         /\ ~IsAggregate(result)
    /\ (mode = "multisplit" /\ split_pc # "header" /\ header = <<>>) =>
         /\ split_pc = "raised"
         /\ IsRaised(returned)
         /\ queues = <<>>
         /\ writer_pc = <<>>

\* C12: when split has returned, for every column the queue is empty,
\* every item put on it (the batches and the sentinel) has been marked
\* task_done, its writer is past its loop, and every batch put has been
\* appended to the sink.
C12_ReturnsWhenAllDrained ==
    (mode = "multisplit" /\ split_pc = "done") =>
        \A j \in Cols :
            /\ queues[j] = <<>>
            /\ unfinished[j] = 0
            /\ writer_pc[j] \in {"close", "done"}
            /\ sink[j] = AllWritten(PutBatches(header, input, j))

C12_Witness ==
    /\ mode = "multisplit" /\ split_pc = "done"
    /\ Len(header) = 2
    /\ Len(PutBatches(header, input, 1)) = 2
    /\ sink[1] # <<>> /\ sink[2] # <<>>

\* C13: the sinks and the histogram of split are functions of the input
\* alone, whatever the interleaving of populate_queues and the writers: at
\* every moment sink j is a prefix of one text fixed by the input, a writer
\* that has left its loop has written all of that text, and the histogram
\* split returns is the one fixed by the input; so any two runs on the same
\* input end with the same sinks and the same histogram.
C13_SplitDeterministic ==
    (mode = "multisplit" /\ split_pc \notin {"header", "raised"}) =>
        /\ \A j \in Cols :
               /\ IsPrefix(sink[j], SinkOf(header, input, j))
               /\ writer_pc[j] \in {"close", "done"} =>
                      sink[j] = SinkOf(header, input, j)
        /\ split_pc = "done" => returned = HistogramOf(input)

C13_Witness ==
    /\ mode = "multisplit" /\ split_pc = "done"
    /\ Len(header) = 2 /\ Len(input) = 3
    /\ writer_pc[1] = "done" /\ writer_pc[2] = "close"
    /\ DOMAIN returned = {1, 2}
    /\ sink[1] # sink[2]

\* C14: in main, every sentinel put is either still on the line queue or
\* was popped by a worker of its own that then left its loop for good, and
\* main puts num_workers of them; a sentinel is put only when every line of
\* stdin has been put; no line stands behind a sentinel on the queue; a
\* worker has left its loop only when no line is left on stdin or on the
\* queue; and when every worker has left its loop the queue is empty.
C14_TerminationProtocol ==
    mode = "multiread" =>
        /\ SentinelsQueued + Cardinality(Stopped) = SentinelsPut
        /\ SentinelsPut > 0 => stdin = <<>>
        /\ \A i, k \in 1..Len(line_queue) :
               (i < k /\ line_queue[i] = _SENTINEL) => line_queue[k] = _SENTINEL
        /\ Stopped # {} =>
               /\ stdin = <<>>
               /\ \A i \in 1..Len(line_queue) : line_queue[i] = _SENTINEL
        /\ Stopped = Workers =>
               /\ line_queue = <<>>
               /\ SentinelsPut = num_workers

C14_Witness ==
    /\ mode = "multiread" /\ num_workers = 2 /\ Len(input) = 3
    /\ worker_pc[1] = "done" /\ worker_pc[2] = "get"
    /\ line_queue = <<_SENTINEL>>
    /\ CounterTotal(counter[2]) = 2

\* C15: when split has returned, every writer has closed its sink.
C15_SinksClosedAtReturn ==
    (mode = "multisplit" /\ split_pc = "done") =>
        \A j \in Cols : sink_state[j] = "closed"

\* C16: no empty list of values is ever on a per-column queue.
C16_NoEmptyBatchQueued ==
    mode = "multisplit" =>
        \A j \in 1..Len(queues) : \A i \in 1..Len(queues[j]) : queues[j][i] # <<>>

C18_ColumnBatchRoundTrip ==
    mode = "multisplit" =>
        \A j \in 1..Len(queues) :
            /\ \A i \in 1..Len(queues[j]) :
                   queues[j][i] = SENTINEL => i = Len(queues[j])
            /\ NothingTaken(j) =>
                   /\ IsPrefix(QueuedValues(queues[j]), FieldValues(header, input, j))
                   /\ AllPut =>
                          /\ QueuedValues(queues[j]) = FieldValues(header, input, j)
                          /\ queues[j][Len(queues[j])] = SENTINEL

C18_Witness ==
    /\ mode = "multisplit" /\ split_pc = "join"
    /\ Len(header) = 2 /\ Len(input) = 3
    /\ NothingTaken(1) /\ NothingTaken(2)
    /\ Len(queues[1]) = 3
    /\ Len(queues[1][1]) = 2 /\ queues[1][1][1] # queues[1][1][2]
    /\ queues[2][2] = <<>>

\* C19: for every sequence and every batch size of 1 or more, the batches
\* make_batches yields, put end to end in the order yielded, are the
\* sequence; every batch but the last has batch_size elements and the last
\* has from 1 to batch_size; and the empty sequence yields no batch.
C19_MakeBatches ==
    (mode = "function" /\ main_pc = "make_batches") =>
        LET bs == result.yielded
            n == result.batch_size
        IN  /\ Concat(bs) = input
            /\ \A i \in 1..Len(bs) - 1 : Len(bs[i]) = n
            /\ bs # <<>> => Len(bs[Len(bs)]) \in 1..n
            /\ input = <<>> => bs = <<>>

C19_Witness ==
    /\ mode = "function" /\ main_pc = "make_batches"
    /\ Len(input) = 3 /\ result.batch_size = 2
    /\ Len(result.yielded) = 2
    /\ Len(result.yielded[2]) = 1

\* C20: every partial result a worker has put on the result queue, and
\* every aggregate collate has returned, has for every column a fill_count
\* of at most the histogram's count of rows of header width and, when that
\* count is 1 or more, a min_len of at most its max_len.
C20_ColumnStatsInvariant ==
    /\ mode = "multiread" =>
           \A r \in Range(result_queue \o results) : StatsOk(r)
    /\ HasAggregate => StatsOk(result)

C20_Witness ==
    /\ mode = "multiread" /\ main_pc = "done" /\ num_workers = 2
    /\ Len(header) = 2
    /\ CounterGet(result.counter, 2) = 2
    /\ result.fill_count[1] = 1
    /\ result.min_len[1] < result.max_len[1]
    /\ results[1].min_len[1] = results[1].max_len[1]

====
